---- MODULE Spec2Model ----
(***************************************************************************)
(* A model of slack_roll.roll: the roll grammar (RollAction.__call__), the *)
(* roll evaluator and formatter (do_roll), and the request wrapper         *)
(* make_roll with its two module globals ERRORS and COMMAND.               *)
(*                                                                         *)
(* Strings are sequences of one-character strings.  A message is a record  *)
(* of the template's name and the values formatted into it.  An invocation *)
(* of make_roll is a process; its steps are split where the code reads or  *)
(* writes the module globals, so that overlapping invocations interleave   *)
(* exactly at those places.                                                *)
(***************************************************************************)
EXTENDS Integers, Sequences, FiniteSets, TLC

\* ------------------------------------------------------------------ bounds

\* The largest number written in a generated roll expression.
MaxNum == 101
\* Length of a randomness tape, and the largest raw value on it.
TapeLen == 2
MaxRaw == 7

\* ------------------------------------------------------- program constants

MaxCount == 100
MinCount == 1
MaxSides == 100
MinSides == 4
DefaultCount == 1
DefaultSides == 6

\* slack_roll.ALLOWED_COMMANDS
ALLOWED_COMMANDS == {"/roll", "/rolldice", "/diceroll", "/roll_dice", "/dice_roll"}

\* slack_roll.PROJECT_INFO['name_full'] and ['auth_url']
name_full == "EM Slack Roll"
auth_url == "http://dev.erinmorelli.com/slack/roll/authorize"

\* ------------------------------------------------------------------ strings

DigitChars == <<"0", "1", "2", "3", "4", "5", "6", "7", "8", "9">>
UpperChars == <<"A", "B", "C", "D", "E", "F", "G", "H", "I", "J", "K", "L", "M",
                "N", "O", "P", "Q", "R", "S", "T", "U", "V", "W", "X", "Y", "Z">>
LowerChars == <<"a", "b", "c", "d", "e", "f", "g", "h", "i", "j", "k", "l", "m",
                "n", "o", "p", "q", "r", "s", "t", "u", "v", "w", "x", "y", "z">>

IsDigit(c) == \E i \in 1..10 : DigitChars[i] = c

DigitVal(c) == (CHOOSE i \in 1..10 : DigitChars[i] = c) - 1

\* str.lower() on one character
LowerChar(c) ==
    IF \E i \in 1..26 : UpperChars[i] = c
    THEN LowerChars[CHOOSE i \in 1..26 : UpperChars[i] = c]
    ELSE c

\* No lower-casing at all
Lower_Identity(s) == s

\* values.lower()
Lower(s) == [i \in 1..Len(s) |-> LowerChar(s[i])]

\* int(group): the value of a non-empty run of decimal digits
RECURSIVE StrToInt(_)
StrToInt(s) ==
    IF s = <<>> THEN 0
    ELSE 10 * StrToInt(SubSeq(s, 1, Len(s) - 1)) + DigitVal(s[Len(s)])

\* The length of the longest run of digits of s that starts at index i:
\* what a greedy \d+ consumes there.
RECURSIVE DigitRun(_, _)
DigitRun(s, i) ==
    IF i <= Len(s) /\ IsDigit(s[i]) THEN 1 + DigitRun(s, i + 1) ELSE 0

\* ------------------------------------------------------------ the grammar

\* A group that did not take part in the match (None in Python) is <<>>;
\* a group that took part is never empty.
NoGroup == <<>>

\* re.I: the literal d of the pattern matches either case
IsLiteralD(c) == c \in {"d", "D"}

\* Whether the optional modifier group (?:([-+])(\d+))? takes part at index m
ModifierMatches(s, m) ==
    /\ m <= Len(s)
    /\ s[m] \in {"-", "+"}
    /\ DigitRun(s, m + 1) >= 1

\* re.match(r'(\d+)?d(\d+)(?:([-+])(\d+))?', s, re.I): anchored at the
\* start of s only; end is the number of characters the match consumed.
ReMatchPrefix(s) ==
    LET n1 == DigitRun(s, 1)
        d  == n1 + 1
        n2 == DigitRun(s, d + 1)
        m  == d + n2 + 1
        n4 == DigitRun(s, m + 1)
    IN  IF d <= Len(s) /\ IsLiteralD(s[d]) /\ n2 >= 1
        THEN [matched |-> TRUE,
              g1 |-> IF n1 >= 1 THEN SubSeq(s, 1, n1) ELSE NoGroup,
              g2 |-> SubSeq(s, d + 1, d + n2),
              g3 |-> IF ModifierMatches(s, m) THEN <<s[m]>> ELSE NoGroup,
              g4 |-> IF ModifierMatches(s, m) THEN SubSeq(s, m + 1, m + n4) ELSE NoGroup,
              end |-> IF ModifierMatches(s, m) THEN m + n4 ELSE m - 1]
        ELSE [matched |-> FALSE, g1 |-> NoGroup, g2 |-> NoGroup,
              g3 |-> NoGroup, g4 |-> NoGroup, end |-> 0]

\* The same pattern under re.fullmatch: the whole of s must match
ReMatch_Full(s) ==
    IF ReMatchPrefix(s).end = Len(s) THEN ReMatchPrefix(s)
    ELSE [matched |-> FALSE, g1 |-> NoGroup, g2 |-> NoGroup,
          g3 |-> NoGroup, g4 |-> NoGroup, end |-> 0]

ReMatch(s) == ReMatchPrefix(s)

\* ------------------------------------------------------------- messages

Msg(k, a) == [kind |-> k, arg |-> a]
NoMsg == Msg("none", <<>>)

\* '"{0}" is not an allowed command'
NotAllowedMsg(command) == Msg("not_allowed", <<command>>)

\* "{0} is not authorized to post in this team: {1}"
AuthErrorMsg == Msg("not_authorized", <<name_full, auth_url>>)

\* "'{0}' is not a recognized roll format"
NotRecognizedMsg(dice_roll) == Msg("not_recognized", dice_roll)

\* The usage text: it names the application, the invoking command, and the
\* literal ranges "1-100 dice" and "4-100 sides".
HelpMsg(command) ==
    Msg("usage", <<name_full, command, "1-100 dice", "4-100 sides",
                   "d20", "4d10", "1d6+3", "help">>)

\* argparse's own messages for an argument it takes for an option
RequiredMsg == Msg("arguments_required", <<"dice_roll">>)
UnrecognizedMsg(arg) == Msg("unrecognized_arguments", arg)

\* ------------------------------------------------------------ the namespace

\* The namespace parse_args returns.  Before RollAction stores into it, it
\* holds only dice_roll=None: has_roll is FALSE and reading count raises.
\* modifier and modifier_count are <<>> for None, else a one-element tuple.
EmptyNamespace ==
    [has_roll |-> FALSE, count |-> 0, sides |-> 0,
     modifier |-> <<>>, modifier_count |-> <<>>]

Namespace(count, sides, modifier, modifier_count) ==
    [has_roll |-> TRUE, count |-> count, sides |-> sides,
     modifier |-> modifier, modifier_count |-> modifier_count]

\* ClampCount without its lower limit
ClampCount_NoMin(n) == IF n > MaxCount THEN MaxCount ELSE n

\* "Set 100 count max", "Set 1 count min"
ClampCount(n) ==
    LET c == IF n > MaxCount THEN MaxCount ELSE n
    IN  IF c < MinCount THEN MinCount ELSE c

\* "Set 100 side max", "Set 4 side min"
ClampSides(n) ==
    LET c == IF n > MaxSides THEN MaxSides ELSE n
    IN  IF c < MinSides THEN MinSides ELSE c

\* What one call of the action does: the messages it appends to ERRORS (in
\* order), the namespace it leaves, and the exception it ends with ("" for
\* a normal return).  parser.error() only records the message and returns,
\* so on a failed match the code goes on to result.group(1) with result
\* None, which raises AttributeError.
ActionResult(errs, ns, exc) == [errs |-> errs, ns |-> ns, exc |-> exc]

RollAction(values, command) ==
    LET dice_roll == Lower(values)
        result    == ReMatch(dice_roll)
        count     == IF result.g1 # NoGroup
                     THEN ClampCount(StrToInt(result.g1)) ELSE DefaultCount
        sides     == IF result.g2 # NoGroup
                     THEN ClampSides(StrToInt(result.g2)) ELSE DefaultSides
    IN  IF dice_roll = <<"h", "e", "l", "p">>
        THEN ActionResult(<<HelpMsg(command)>>, EmptyNamespace, "")
        ELSE IF ~result.matched
        THEN ActionResult(<<NotRecognizedMsg(dice_roll)>>, EmptyNamespace,
                          "AttributeError")
        ELSE IF result.g3 # NoGroup /\ result.g4 = NoGroup
        THEN \* return "ERROR": the namespace is left without a roll
             ActionResult(<<>>, EmptyNamespace, "")
        ELSE IF result.g3 # NoGroup
        THEN ActionResult(<<>>, Namespace(count, sides, result.g3,
                                          <<StrToInt(result.g4)>>), "")
        ELSE ActionResult(<<>>, Namespace(count, sides, <<>>, <<>>), "")

\* argparse takes an argument for an option, not for the positional
\* dice_roll, when it starts with "-", is longer than one character and is
\* not a negative number (-\d+).  The help flags -h and --help, and "--",
\* are not among the texts of this model.
LooksLikeOption(arg) ==
    /\ Len(arg) >= 2
    /\ arg[1] = "-"
    /\ ~(DigitRun(arg, 2) = Len(arg) - 1)

\* parser.parse_args([dice_roll]) with the parser of get_parser()
ParseArgs(dice_roll, command) ==
    IF LooksLikeOption(dice_roll)
    THEN ActionResult(<<RequiredMsg, UnrecognizedMsg(dice_roll)>>, EmptyNamespace, "")
    ELSE RollAction(dice_roll, command)

\* ------------------------------------------------------------ the evaluator

\* random.randint(1, sides) on the k-th draw (k from 0) of a source whose raw
\* output is the tape, read cyclically: some integer in 1..sides.
RandInt(tape, k, sides) == 1 + (tape[1 + (k % Len(tape))] % sides)

\* The loop "for count in range(0, roll.count)" over the draws lo .. hi - 1:
\* the roll_sum they add up to and the roll_result they append, in draw
\* order.  The range is split in halves so that a roll of 100 dice is
\* evaluated without deep recursion; the sums and the order are the loop's.
RECURSIVE RollLoop(_, _, _, _)
RollLoop(lo, hi, sides, tape) ==
    IF lo >= hi THEN [roll_sum |-> 0, roll_result |-> <<>>]
    ELSE IF hi = lo + 1
    THEN LET die_roll == RandInt(tape, lo, sides)
         IN  [roll_sum |-> die_roll, roll_result |-> <<die_roll>>]
    ELSE LET mid    == (lo + hi) \div 2
             first  == RollLoop(lo, mid, sides, tape)
             second == RollLoop(mid, hi, sides, tape)
         IN  [roll_sum    |-> first.roll_sum + second.roll_sum,
              roll_result |-> first.roll_result \o second.roll_result]

\* The modifier applied with the sum kept from going below zero
ApplyModifier_Clamped(roll_sum, modifier, modifier_count) ==
    IF modifier = <<>> THEN roll_sum
    ELSE IF modifier = <<"-">>
    THEN (IF roll_sum < modifier_count[1] THEN 0 ELSE roll_sum - modifier_count[1])
    ELSE roll_sum + modifier_count[1]

\* "Deal with modifier"
ApplyModifier(roll_sum, modifier, modifier_count) ==
    IF modifier = <<>> THEN roll_sum
    ELSE IF modifier = <<"-">> THEN roll_sum - modifier_count[1]
    ELSE IF modifier = <<"+">> THEN roll_sum + modifier_count[1]
    ELSE roll_sum

\* The formatted roll: the values the two templates of do_roll are filled
\* with, the results in roll order.
NoRoll ==
    [user |-> "", count |-> 0, sides |-> 0, die |-> "", sum |-> 0,
     results |-> <<>>, mod_sign |-> <<>>, mod_count |-> <<>>]

do_roll(roll, user, tape) ==
    LET rolled == RollLoop(0, roll.count, roll.sides, tape)
    IN  [user      |-> user,
         count     |-> roll.count,
         sides     |-> roll.sides,
         die       |-> IF roll.count = 1 THEN "die" ELSE "dice",
         sum       |-> ApplyModifier(rolled.roll_sum, roll.modifier, roll.modifier_count),
         results   |-> rolled.roll_result,
         mod_sign  |-> roll.modifier,
         mod_count |-> roll.modifier_count]

\* --------------------------------------------------------- the team store

\* Users.query.get(team_id): the teams that installed the integration, each
\* with its stored token.
Users == [T1 |-> "xoxp-T1"]
TeamKnown(team_id) == team_id \in DOMAIN Users

\* ------------------------------------------------------------- the state

Procs == {1, 2}

VARIABLES
    ERRORS,     \* the module global ERRORS: a list of messages
    COMMAND,    \* the module global COMMAND ("None" before the first request)
    pc,         \* where each invocation of make_roll is
    args,       \* its argument: the posted form
    env,        \* what it meets outside: the random source, the chat API's answer
    token,      \* its local token ("" while unset)
    dice_roll,  \* its local dice_roll
    result,     \* its local result: the parsed namespace
    roll,       \* its local roll: the formatted message
    ret,        \* what it returned or raised
    chat        \* the messages it posted to the channel

vars == <<ERRORS, COMMAND, pc, args, env, token, dice_roll, result, roll, ret, chat>>

\* What an invocation ends with
NoReturn == [kind |-> "none", msg |-> NoMsg, exc |-> ""]
Returned(m) == [kind |-> "message", msg |-> m, exc |-> ""]
ReturnedOK == [kind |-> "ok", msg |-> NoMsg, exc |-> ""]
ReturnedErr == [kind |-> "post_error", msg |-> NoMsg, exc |-> "slacker.Error"]
Raised(e) == [kind |-> "raise", msg |-> NoMsg, exc |-> e]

NoArgs == [command |-> "", team_id |-> "", user_name |-> "", text |-> <<>>]
NoEnv == [tape |-> <<0>>, post_ok |-> TRUE]

Init ==
    /\ ERRORS = <<>>
    /\ COMMAND = "None"
    /\ pc = [p \in Procs |-> "idle"]
    /\ args = [p \in Procs |-> NoArgs]
    /\ env = [p \in Procs |-> NoEnv]
    /\ token = [p \in Procs |-> ""]
    /\ dice_roll = [p \in Procs |-> <<>>]
    /\ result = [p \in Procs |-> EmptyNamespace]
    /\ roll = [p \in Procs |-> NoRoll]
    /\ ret = [p \in Procs |-> NoReturn]
    /\ chat = [p \in Procs |-> <<>>]

\* ---------------------------------------------------------- make_roll

\* The gateway calls make_roll(request.form.to_dict()) with one of the
\* requests of pool: a new invocation, with fresh locals.
Request(p, pool) ==
    /\ pc[p] = "idle"
    /\ \E r \in pool :
        /\ args' = [args EXCEPT ![p] = r.args]
        /\ env' = [env EXCEPT ![p] = r.env]
    /\ pc' = [pc EXCEPT ![p] = "reset"]
    /\ UNCHANGED <<ERRORS, COMMAND, token, dice_roll, result, roll, ret, chat>>

\* The gateway has sent what make_roll returned (or the failure it raised):
\* the invocation and its locals are gone.
Return(p) ==
    /\ pc[p] = "done"
    /\ pc' = [pc EXCEPT ![p] = "idle"]
    /\ args' = [args EXCEPT ![p] = NoArgs]
    /\ env' = [env EXCEPT ![p] = NoEnv]
    /\ token' = [token EXCEPT ![p] = ""]
    /\ dice_roll' = [dice_roll EXCEPT ![p] = <<>>]
    /\ result' = [result EXCEPT ![p] = EmptyNamespace]
    /\ roll' = [roll EXCEPT ![p] = NoRoll]
    /\ ret' = [ret EXCEPT ![p] = NoReturn]
    /\ chat' = [chat EXCEPT ![p] = <<>>]
    /\ UNCHANGED <<ERRORS, COMMAND>>

\* make_roll without the reset of the global ERRORS
ResetErrors_Keep(p) ==
    /\ pc[p] = "reset"
    /\ pc' = [pc EXCEPT ![p] = "check_command"]
    /\ UNCHANGED <<ERRORS, COMMAND, args, env, token, dice_roll, result, roll, ret, chat>>

\* "Reset global error traker": ERRORS = []
ResetErrors(p) ==
    /\ pc[p] = "reset"
    /\ ERRORS' = <<>>
    /\ pc' = [pc EXCEPT ![p] = "check_command"]
    /\ UNCHANGED <<COMMAND, args, env, token, dice_roll, result, roll, ret, chat>>

\* "Make sure this is a valid slash command", else COMMAND = args['command']
CheckCommand(p) ==
    /\ pc[p] = "check_command"
    /\ IF args[p].command \notin ALLOWED_COMMANDS
       THEN /\ ret' = [ret EXCEPT ![p] = Returned(NotAllowedMsg(args[p].command))]
            /\ pc' = [pc EXCEPT ![p] = "done"]
            /\ UNCHANGED COMMAND
       ELSE /\ COMMAND' = args[p].command
            /\ pc' = [pc EXCEPT ![p] = "check_token"]
            /\ UNCHANGED ret
    /\ UNCHANGED <<ERRORS, args, env, token, dice_roll, result, roll, chat>>

\* make_roll without the default roll for an empty text
CheckToken_NoDefault(p) ==
    /\ pc[p] = "check_token"
    /\ IF ~TeamKnown(args[p].team_id)
       THEN /\ ret' = [ret EXCEPT ![p] = Returned(AuthErrorMsg)]
            /\ pc' = [pc EXCEPT ![p] = "done"]
            /\ UNCHANGED <<token, dice_roll>>
       ELSE /\ token' = [token EXCEPT ![p] = Users[args[p].team_id]]
            /\ dice_roll' = [dice_roll EXCEPT ![p] = args[p].text]
            /\ pc' = [pc EXCEPT ![p] = "parse"]
            /\ UNCHANGED ret
    /\ UNCHANGED <<ERRORS, COMMAND, args, env, result, roll, chat>>

\* check_token(args), the return of its message for an unknown team, and
\* the choice of dice_roll ("If there's no input, use the default roll")
CheckToken(p) ==
    /\ pc[p] = "check_token"
    /\ IF ~TeamKnown(args[p].team_id)
       THEN /\ ret' = [ret EXCEPT ![p] = Returned(AuthErrorMsg)]
            /\ pc' = [pc EXCEPT ![p] = "done"]
            /\ UNCHANGED <<token, dice_roll>>
       ELSE /\ token' = [token EXCEPT ![p] = Users[args[p].team_id]]
            /\ dice_roll' = [dice_roll EXCEPT ![p] =
                   IF args[p].text = <<>> THEN <<"d", "6">> ELSE args[p].text]
            /\ pc' = [pc EXCEPT ![p] = "parse"]
            /\ UNCHANGED ret
    /\ UNCHANGED <<ERRORS, COMMAND, args, env, result, roll, chat>>

\* result = parser.parse_args([dice_roll]): the action appends its messages
\* to the global ERRORS (print_help reads the global COMMAND), and an
\* exception it raises ends make_roll.
Parse(p) ==
    /\ pc[p] = "parse"
    /\ LET r == ParseArgs(dice_roll[p], COMMAND)
       IN  /\ ERRORS' = ERRORS \o r.errs
           /\ IF r.exc # ""
              THEN /\ ret' = [ret EXCEPT ![p] = Raised(r.exc)]
                   /\ pc' = [pc EXCEPT ![p] = "done"]
                   /\ UNCHANGED result
              ELSE /\ result' = [result EXCEPT ![p] = r.ns]
                   /\ pc' = [pc EXCEPT ![p] = "check_errors"]
                   /\ UNCHANGED ret
    /\ UNCHANGED <<COMMAND, args, env, token, dice_roll, roll, chat>>

\* if len(ERRORS) > 0:
CheckErrors(p) ==
    /\ pc[p] = "check_errors"
    /\ pc' = [pc EXCEPT ![p] = IF Len(ERRORS) > 0 THEN "return_error" ELSE "do_roll"]
    /\ UNCHANGED <<ERRORS, COMMAND, args, env, token, dice_roll, result, roll, ret, chat>>

\* return ERRORS[0]: a second read of the global; on a list emptied in
\* between it raises IndexError.
ReturnError(p) ==
    /\ pc[p] = "return_error"
    /\ ret' = [ret EXCEPT ![p] =
           IF Len(ERRORS) > 0 THEN Returned(ERRORS[1]) ELSE Raised("IndexError")]
    /\ pc' = [pc EXCEPT ![p] = "done"]
    /\ UNCHANGED <<ERRORS, COMMAND, args, env, token, dice_roll, result, roll, chat>>

\* roll = do_roll(result, args['user_name']): roll.count on a namespace the
\* action stored nothing into raises AttributeError.
DoRoll(p) ==
    /\ pc[p] = "do_roll"
    /\ IF result[p].has_roll
       THEN /\ roll' = [roll EXCEPT ![p] =
                   do_roll(result[p], args[p].user_name, env[p].tape)]
            /\ pc' = [pc EXCEPT ![p] = "send_roll"]
            /\ UNCHANGED ret
       ELSE /\ ret' = [ret EXCEPT ![p] = Raised("AttributeError")]
            /\ pc' = [pc EXCEPT ![p] = "done"]
            /\ UNCHANGED roll
    /\ UNCHANGED <<ERRORS, COMMAND, args, env, token, dice_roll, result, chat>>

\* make_roll ignoring what send_roll returned
SendRoll_IgnoreErr(p) ==
    /\ pc[p] = "send_roll"
    /\ chat' = [chat EXCEPT ![p] = IF env[p].post_ok THEN Append(chat[p], roll[p]) ELSE chat[p]]
    /\ ret' = [ret EXCEPT ![p] = ReturnedOK]
    /\ pc' = [pc EXCEPT ![p] = "done"]
    /\ UNCHANGED <<ERRORS, COMMAND, args, env, token, dice_roll, result, roll>>

\* err = send_roll(token, roll, args): chat.post_message either posts the
\* message or raises slacker.Error, which send_roll returns and make_roll
\* passes on; otherwise make_roll returns ('', 204).
SendRoll(p) ==
    /\ pc[p] = "send_roll"
    /\ IF env[p].post_ok
       THEN /\ chat' = [chat EXCEPT ![p] = Append(chat[p], roll[p])]
            /\ ret' = [ret EXCEPT ![p] = ReturnedOK]
       ELSE /\ ret' = [ret EXCEPT ![p] = ReturnedErr]
            /\ UNCHANGED chat
    /\ pc' = [pc EXCEPT ![p] = "done"]
    /\ UNCHANGED <<ERRORS, COMMAND, args, env, token, dice_roll, result, roll>>

\* The steps of one invocation
Step(p) ==
    \/ ResetErrors(p)
    \/ CheckCommand(p)
    \/ CheckToken(p)
    \/ Parse(p)
    \/ CheckErrors(p)
    \/ ReturnError(p)
    \/ DoRoll(p)
    \/ SendRoll(p)

\* ------------------------------------------------------------ the requests

\* str(n): the decimal digits of a natural number
RECURSIVE DecStr(_)
DecStr(n) ==
    IF n < 10 THEN <<DigitChars[n + 1]>>
    ELSE Append(DecStr(n \div 10), DigitChars[(n % 10) + 1])

\* The numbers around the clamping limits
EdgeNums == {0, 1, 3, 4, 6, 99, 100, MaxNum}

\* Texts with a sign and no digits after it, and texts with trailing
\* characters after a complete expression
SignTexts ==
    {<<"1", "d", "6", "+">>, <<"1", "d", "6", "-">>, <<"d", "8", "+", "x">>,
     <<"4", "d", "1", "0", "-", "+", "3">>, <<"2", "D", "6", "+">>}
TrailTexts ==
    {<<"2", "d", "6", "a", "b", "c">>, <<"d", "2", "0", "d">>,
     <<"1", "d", "6", "+", "3", "x">>, <<"2", "d", "8", "-", "1", "+", "1">>,
     <<"3", "d", "6", " ", "2">>, <<"0", "d", "2", "!">>}
HelpTexts ==
    {<<"h", "e", "l", "p">>, <<"H", "E", "L", "P">>, <<"H", "e", "l", "p">>,
     <<"h", "E", "l", "P">>}
GarbageTexts ==
    {<<"x", "y", "z">>, <<"X", "Y", "Z">>, <<"d">>, <<"6">>, <<"1", "2">>,
     <<"+", "1", "d", "6">>, <<" ", "d", "6">>, <<"h", "e", "l", "p", "s">>,
     <<"-">>, <<"-", "1">>, <<"-", "1", "d", "6">>, <<"1", "d">>, <<"1", "d", "+", "3">>}
RollTexts ==
    {<<>>, <<"d", "6">>, <<"D", "6">>, <<"d", "2", "0">>, <<"4", "d", "1", "0">>,
     <<"1", "d", "6", "+", "3">>, <<"2", "d", "8", "-", "1">>,
     <<"3", "d", "6", "+", "2">>, <<"1", "d", "4", "-", "9">>,
     <<"0", "0", "7", "d", "0", "6">>, <<"2", "d", "6", "+", "0">>,
     <<"1", "d", "6", "+", "1", "2", "0">>}

\* The texts of the parser's specification: the above, every count and
\* every number of sides up to MaxNum, and the limits combined.
ParseTexts ==
    RollTexts \cup SignTexts \cup TrailTexts \cup HelpTexts \cup GarbageTexts
    \cup {DecStr(n) \o <<"d", "6">> : n \in 0..MaxNum}
    \cup {<<"2", "d">> \o DecStr(n) : n \in 0..MaxNum}
    \cup {DecStr(n) \o <<"D">> \o DecStr(m) \o <<"-", "5">> : n \in EdgeNums, m \in EdgeNums}

\* The random sources: tapes of the raw values 0, 3 and MaxRaw.  A tape of
\* 3s makes every draw a 4, whatever the number of sides.
Tapes == [1..TapeLen -> {0, 3, MaxRaw}]
ConstTape(v) == [i \in 1..TapeLen |-> v]

\* A request: the posted form, and what the invocation meets outside
Requests(commands, teams, texts, tapes, answers) ==
    [args : [command : commands, team_id : teams, user_name : {"erin"}, text : texts],
     env  : [tape : tapes, post_ok : answers]]

SeqTexts ==
    {<<>>, <<"d", "6">>, <<"3", "d", "6", "+", "2">>, <<"h", "e", "l", "p">>,
     <<"H", "e", "L", "P">>, <<"x", "y", "z">>, <<"1", "d", "6", "+">>,
     <<"-", "1", "d", "6">>}
ConcTexts ==
    {<<"d", "6">>, <<"H", "E", "L", "P">>, <<"x", "y", "z">>, <<"-", "1", "d", "6">>}

\* Requests that end before the text is read: a command that is not
\* allowed, a team that is not in the store
EarlyRequests ==
    Requests({"/flip"}, {"T1", "T0"}, {<<"d", "6">>}, {ConstTape(3)}, {TRUE})
    \cup Requests({"/roll"}, {"T0"}, {<<"d", "6">>}, {ConstTape(3)}, {TRUE})

ConcRequests ==
    EarlyRequests
    \cup Requests({"/roll", "/dice_roll"}, {"T1"}, ConcTexts, {ConstTape(3)}, BOOLEAN)

SeqRequests ==
    EarlyRequests
    \cup Requests({"/roll", "/dice_roll"}, {"T1"}, SeqTexts,
                  {ConstTape(3), ConstTape(0)}, BOOLEAN)

ParseRequests == Requests({"/roll"}, {"T1"}, ParseTexts, Tapes, BOOLEAN)

\* -------------------------------------------------------- specifications

\* Overlapping invocations: the steps of two requests interleave freely.
Next ==
    \E p \in Procs : Request(p, ConcRequests) \/ Step(p) \/ Return(p)

Spec == Init /\ [][Next]_vars

\* No other invocation is under way
Alone(p) == \A q \in Procs \ {p} : pc[q] \in {"idle", "done"}

\* Non-overlapping invocations: a request starts only when no other
\* invocation is under way; what the other one returned stays visible
\* until the gateway has sent it.
NextSeq ==
    \E p \in Procs :
        \/ Alone(p) /\ Request(p, SeqRequests)
        \/ Step(p)
        \/ Return(p)

SpecSeq == Init /\ [][NextSeq]_vars

\* One invocation at a time, on the texts of the parser's pool with each
\* random source.
NextParse == Request(1, ParseRequests) \/ Step(1) \/ Return(1)

SpecParse == Init /\ [][NextParse]_vars

\* ------------------------------------------------------------- the claims

\* The grammar of the specification, read off a text t: an optional decimal
\* count, the letter d, a decimal number of sides, and optionally a sign
\* followed by a decimal value.
CountLen(t) == DigitRun(t, 1)
SidesLen(t) == DigitRun(t, CountLen(t) + 2)
Accepted(t) ==
    /\ CountLen(t) + 1 <= Len(t)
    /\ t[CountLen(t) + 1] \in {"d", "D"}
    /\ SidesLen(t) >= 1
CountOf(t) == StrToInt(SubSeq(t, 1, CountLen(t)))
SidesOf(t) == StrToInt(SubSeq(t, CountLen(t) + 2, CountLen(t) + 1 + SidesLen(t)))
\* The index just after the sides
SignAt(t) == CountLen(t) + SidesLen(t) + 2
HasSign(t) == SignAt(t) <= Len(t) /\ t[SignAt(t)] \in {"+", "-"}
SignWithoutDigits(t) == Accepted(t) /\ HasSign(t) /\ DigitRun(t, SignAt(t) + 1) = 0
\* The length of the longest prefix of t that is an expression of the grammar
PrefixLen(t) ==
    IF HasSign(t) /\ DigitRun(t, SignAt(t) + 1) >= 1
    THEN SignAt(t) + DigitRun(t, SignAt(t) + 1)
    ELSE SignAt(t) - 1
IsHelpText(t) ==
    /\ Len(t) = 4
    /\ t[1] \in {"h", "H"} /\ t[2] \in {"e", "E"}
    /\ t[3] \in {"l", "L"} /\ t[4] \in {"p", "P"}
Min(a, b) == IF a < b THEN a ELSE b
Max(a, b) == IF a > b THEN a ELSE b
\* The sum of the elements i .. j of s
RECURSIVE SumRange(_, _, _)
SumRange(s, i, j) ==
    IF i > j THEN 0
    ELSE IF i = j THEN s[i]
    ELSE SumRange(s, i, (i + j) \div 2) + SumRange(s, ((i + j) \div 2) + 1, j)
SeqSum(s) == SumRange(s, 1, Len(s))

\* The invocation has got past parse_args, which returned normally
AfterParse(p) == pc[p] \in {"check_errors", "return_error", "do_roll", "send_roll"}
\* The invocation has called parse_args, however that ended
ParseCalled(p) ==
    \/ AfterParse(p)
    \/ pc[p] = "done" /\ args[p].command \in ALLOWED_COMMANDS /\ TeamKnown(args[p].team_id)

\* C3: for every accepted expression NdS the parsed request has
\* count = min(max(N, 1), 100), or 1 when N is absent, and
\* sides = min(max(S, 4), 100); so count is in 1..100 and sides in 4..100,
\* and for 1 <= N <= 100 and 4 <= S <= 100 the request has exactly count N
\* and sides S.
C3_Clamped ==
    \A p \in Procs :
        (AfterParse(p) /\ Accepted(dice_roll[p])) =>
            /\ result[p].has_roll
            /\ result[p].count = IF CountLen(dice_roll[p]) = 0 THEN 1
                                 ELSE Min(Max(CountOf(dice_roll[p]), 1), 100)
            /\ result[p].sides = Min(Max(SidesOf(dice_roll[p]), 4), 100)
            /\ result[p].count \in 1..100
            /\ result[p].sides \in 4..100
            /\ (CountLen(dice_roll[p]) > 0 /\ CountOf(dice_roll[p]) \in 1..100)
                    => result[p].count = CountOf(dice_roll[p])
            /\ SidesOf(dice_roll[p]) \in 4..100
                    => result[p].sides = SidesOf(dice_roll[p])

\* A count above 100 and a number of sides below 4 have been parsed and clamped
C3_Witness ==
    \E p \in Procs :
        /\ AfterParse(p) /\ Accepted(dice_roll[p])
        /\ CountOf(dice_roll[p]) > 100 /\ result[p].count = 100
        /\ SidesOf(dice_roll[p]) < 4 /\ result[p].sides = 4

\* C2: an input in which a valid <count>d<sides> is followed by a sign with
\* no digits after it is rejected with an error, and never yields a roll
\* request with the modifier dropped.
C2_SignWithoutDigitsRejected ==
    \A p \in Procs :
        (AfterParse(p) /\ SignWithoutDigits(dice_roll[p])) =>
            /\ ~result[p].has_roll
            /\ Len(ERRORS) > 0

\* C1: an input that does not match the grammar and is not help never makes
\* the invocation raise: it ends normally with the message
\* "'<input lower-cased>' is not a recognized roll format".
C1_GarbageYieldsMessage ==
    \A p \in Procs :
        (/\ pc[p] = "done"
         /\ ParseCalled(p)
         /\ ~Accepted(dice_roll[p])
         /\ ~IsHelpText(dice_roll[p])) =>
            /\ ret[p].kind = "message"
            /\ ret[p].msg.kind = "not_recognized"
            /\ Len(ret[p].msg.arg) = Len(dice_roll[p])
            /\ \A i \in 1..Len(dice_roll[p]) :
                    ret[p].msg.arg[i] = LowerChar(dice_roll[p][i])

\* C9: for an input made of an expression of the grammar followed by more
\* characters no error is reported, and the parsed request is the one
\* parsed from the longest matching prefix alone.
C9_TrailingIgnored ==
    \A p \in Procs :
        (/\ ParseCalled(p)
         /\ Accepted(dice_roll[p])
         /\ PrefixLen(dice_roll[p]) < Len(dice_roll[p])) =>
            /\ ERRORS = <<>>
            /\ ret[p].kind \notin {"raise", "message"}
            /\ result[p].has_roll
            /\ result[p] =
                 ParseArgs(SubSeq(dice_roll[p], 1, PrefixLen(dice_roll[p])),
                           args[p].command).ns

\* An expression with a modifier and trailing characters has been parsed
\* into the request of its prefix
C9_Witness ==
    \E p \in Procs :
        /\ AfterParse(p)
        /\ dice_roll[p] = <<"1", "d", "6", "+", "3", "x">>
        /\ result[p] = Namespace(1, 6, <<"+">>, <<3>>)
        /\ ERRORS = <<>>

\* Every value of the sequence s is v
AllDraws(s, v) == \A i \in 1..Len(s) : s[i] = v

\* C4: do_roll draws exactly count values, each in 1..sides, kept in draw
\* order; the sum is the sum of the values, plus the modifier value for +,
\* minus it for -, unchanged without a modifier, and is never clamped. With
\* every draw a 4, 3d6+2 gives the dice 4, 4, 4 and the sum 14.
C4_RollEvaluated ==
    \A p \in Procs :
        pc[p] = "send_roll" =>
            LET r == roll[p]
                q == result[p]
            IN  /\ Len(r.results) = q.count
                /\ \A i \in 1..Len(r.results) :
                        /\ r.results[i] \in 1..q.sides
                        /\ r.results[i] = RandInt(env[p].tape, i - 1, q.sides)
                /\ r.sum = SeqSum(r.results)
                            + (IF q.modifier = <<"+">> THEN q.modifier_count[1] ELSE 0)
                            - (IF q.modifier = <<"-">> THEN q.modifier_count[1] ELSE 0)
                /\ (dice_roll[p] = <<"3", "d", "6", "+", "2">> /\ AllDraws(r.results, 4))
                        => (r.results = <<4, 4, 4>> /\ r.sum = 14)

\* 3d6+2 has been rolled with every draw a 4
C4_Witness ==
    \E p \in Procs :
        /\ pc[p] = "send_roll"
        /\ dice_roll[p] = <<"3", "d", "6", "+", "2">>
        /\ env[p].tape = ConstTape(3)
        /\ roll[p].results = <<4, 4, 4>>
        /\ roll[p].sum = 14

\* The message m is the usage text for the command: it names the command
\* and the two ranges
IsUsage(m, command) ==
    /\ m.kind = "usage"
    /\ \E i \in 1..Len(m.arg) : m.arg[i] = command
    /\ \E i \in 1..Len(m.arg) : m.arg[i] = "1-100 dice"
    /\ \E i \in 1..Len(m.arg) : m.arg[i] = "4-100 sides"

\* C7: for the text help in any letter case the outcome is the usage
\* message, which names the ranges 1-100 dice and 4-100 sides and the
\* invoking command; never a roll and never the 'not a recognized roll
\* format' error.
C7_HelpYieldsUsage ==
    \A p \in Procs :
        (ParseCalled(p) /\ IsHelpText(args[p].text)) =>
            /\ ~result[p].has_roll
            /\ roll[p] = NoRoll
            /\ chat[p] = <<>>
            /\ pc[p] \in {"check_errors", "return_error", "done"}
            /\ LET m == IF pc[p] = "done" THEN ret[p].msg
                        ELSE IF Len(ERRORS) = 1 THEN ERRORS[1] ELSE NoMsg
               IN  /\ pc[p] = "done" => ret[p].kind = "message"
                   /\ IsUsage(m, args[p].command)

\* HELP in mixed case has been answered with the usage message, after a
\* request made with another command
C7_Witness ==
    \E p \in Procs :
        /\ pc[p] = "done"
        /\ args[p].text = <<"H", "e", "L", "P">>
        /\ args[p].command = "/dice_roll"
        /\ ret[p] = Returned(HelpMsg("/dice_roll"))
        /\ \E q \in Procs \ {p} : pc[q] = "done" /\ args[q].command = "/roll"

\* C8: a request with an empty text is treated as a request with the text
\* d6: with the same command, team, user and random draws (and the same
\* answer of the chat API), make_roll takes the same path and yields the
\* same roll message (count 1, sides 6, no modifier) and return value.
C8_EmptyIsD6 ==
    \A p, q \in Procs :
        (/\ pc[p] = "done" /\ pc[q] = "done"
         /\ args[p].text = <<>>
         /\ args[q].text = <<"d", "6">>
         /\ args[p].command = args[q].command
         /\ args[p].team_id = args[q].team_id
         /\ args[p].user_name = args[q].user_name
         /\ env[p] = env[q]) =>
            /\ ret[p] = ret[q]
            /\ roll[p] = roll[q]
            /\ chat[p] = chat[q]
            /\ result[p] = result[q]
            /\ token[p] = token[q]
            /\ ParseCalled(p) =>
                /\ result[p] = Namespace(1, 6, <<>>, <<>>)
                /\ roll[p].count = 1 /\ roll[p].sides = 6 /\ roll[p].mod_sign = <<>>
                /\ Len(roll[p].results) = 1

\* An empty request and a d6 request have both been rolled and posted
C8_Witness ==
    \E p, q \in Procs :
        /\ pc[p] = "done" /\ pc[q] = "done"
        /\ args[p].text = <<>> /\ args[q].text = <<"d", "6">>
        /\ args[p].command = args[q].command
        /\ env[p] = env[q]
        /\ ret[p] = ReturnedOK /\ ret[q] = ReturnedOK
        /\ chat[p] = <<roll[p]>> /\ roll[p].results = <<4>>

\* What an invocation ends with when it depends on its own request only
OwnOutcome(a, e) ==
    IF a.command \notin ALLOWED_COMMANDS THEN Returned(NotAllowedMsg(a.command))
    ELSE IF ~TeamKnown(a.team_id) THEN Returned(AuthErrorMsg)
    ELSE LET r == ParseArgs(IF a.text = <<>> THEN <<"d", "6">> ELSE a.text, a.command)
         IN  IF r.exc # "" THEN Raised(r.exc)
             ELSE IF r.errs # <<>> THEN Returned(r.errs[1])
             ELSE IF ~r.ns.has_roll THEN Raised("AttributeError")
             ELSE IF e.post_ok THEN ReturnedOK
             ELSE ReturnedErr

\* C10: in a sequence of non-overlapping invocations, failed ones included,
\* the global error list is empty when an invocation's parse starts, and
\* each invocation ends with what its own request determines: never with an
\* earlier invocation's message, and a valid request is never rejected.
C10_SequentialIndependent ==
    \A p \in Procs :
        /\ pc[p] = "parse" => ERRORS = <<>>
        /\ pc[p] = "done" => ret[p] = OwnOutcome(args[p], env[p])

\* An invocation that raised was followed by one that posted its roll
C10_Witness ==
    \E p, q \in Procs :
        /\ pc[p] = "done" /\ ret[p].kind = "raise"
        /\ pc[q] = "done" /\ ret[q] = ReturnedOK
        /\ ERRORS = <<>>

\* C5: overlapping invocations share no mutable state: each returns what it
\* would return alone on its own arguments, never the other's error or
\* usage message, never with its own error erased, and never posts a roll
\* for an erroneous input.
C5_OverlapIsolated ==
    \A p \in Procs :
        pc[p] = "done" => ret[p] = OwnOutcome(args[p], env[p])

\* The team's token of an invocation that got as far as parsing
Authorized(p) ==
    /\ args[p].command \in ALLOWED_COMMANDS
    /\ TeamKnown(args[p].team_id)
    /\ token[p] = Users[args[p].team_id]

====
